---- MODULE Spec2Model ----
(***************************************************************************)
(* Model of src/main.py: the door access-control orchestrator.            *)
(*                                                                         *)
(* Threads of the program, each a process of the model:                    *)
(*   main loop (scheduler)   process_rfid_events, check_face_recognition_  *)
(*                           result, the proximity gate, start_face_       *)
(*                           recognition                                   *)
(*   alarm_monitor_thread    polls the magnetic door sensor                *)
(*   rfid_reader_thread      polls the card reader, fills rfid_queue       *)
(*   pir_watchdog_thread     watches the motion callback                   *)
(*   ImageWorker pool        runs async_send_image                         *)
(*   MQTT loop               on_face_result, fills face_result_queue       *)
(*   pigpio callback         pir_motion_callback                           *)
(* Time is a global clock in whole seconds.  The code between two sleeps of *)
(* a thread runs in less than a clock second: the clock advances only while *)
(* the main loop and the monitor are each in a time.sleep or a blocking     *)
(* read.  time.sleep(2) waits until the clock has advanced by 2; the sleeps *)
(* shorter than a second may end at once or last.                           *)
(***************************************************************************)
EXTENDS Integers, Sequences, FiniteSets, TLC

\* ---------------------------------------------------------------- constants

AUTHORIZED_DOOR_OPEN_INTERVAL == 5
FACE_RECOGNITION_COOLDOWN == 10
FACE_RECOGNITION_TIMEOUT == 5
IMAGE_COOLDOWN == 3
MOTION_WINDOW == 5
DISTANCE_THRESHOLD == 50
HOLD_SECONDS == 2
POOL_LIMIT == 2

\* The clock starts at an epoch value for which every "seconds since 0"
\* comparison of the program passes, as with time.time() on a real system
\* (all timestamps of the program start at 0).
Epoch == FACE_RECOGNITION_COOLDOWN + 1

\* Bounds of the model: how far each scenario lets the clock run past Epoch,
\* and the capacity given to rfid_queue (a Queue() without maxsize).
FaceHorizon == 12
UnlockHorizon == 6
AlarmHorizon == 6
CardHorizon == 4
DeniedHorizon == 6
MonitorHorizon == 2
LiveHorizon == 7
MaxQueue == 1

\* magnetic_sensor.read(): 1 = closed, 0 = open
DOOR_OPEN == 0
DOOR_CLOSED == 1

\* Payloads of camera/result: a recognised label or the sentinel.
Labels == {"unknown", "alice"}

\* ultrasonic_sensor.get_distance(): a distance in cm, None (-1) or an
\* exception (-2).
DIST_NONE == -1
DIST_ERROR == -2
DistanceReadings == {DIST_ERROR, DIST_NONE, 30, 50, 51}

\* ---------------------------------------------------------------- state

VARIABLES
  now,                            \* time.time()
  card,                           \* credential at the reader: "none", "auth", "unauth"
  door,                           \* physical door: DOOR_OPEN / DOOR_CLOSED
  shutdown_event,
  door_open_alarm_triggered,
  authorized_door_open,
  last_authorized_open_time,
  last_face_recognition_success,
  last_motion_time,
  rfid_queue,                     \* FIFO of the authorized flags of (authorized, uid)
  face_result_queue,              \* FIFO of [label, stale]
  face_recognition_pending,
  face_recognition_start_time,
  active_image_futures,           \* set of task ids
  tasks,                          \* every task submitted to image_executor: id -> state
  mainPc,                         \* position of the main loop
  current_time,                   \* main(): current_time of this tick
  last_image_attempt,
  wake,                           \* deadline of the time.sleep(2) in progress
  uncaught,                       \* an exception left the main loop
  alarmPc,                        \* position of alarm_monitor_thread
  door_state,                     \* alarm_monitor_thread: door_state
  alarm_time,                     \* alarm_monitor_thread: current_time
  rfidPc,                         \* rfid_reader_thread: "run" / "stopped"
  watchdogPc,                     \* pir_watchdog_thread: "run" / "stopped"
  \* history variables (observations, never read by the program)
  timedOut,                       \* requests timed out locally, their task not yet answered
  consumed,                       \* result read by this tick's poll: "none", "fresh", "stale"
  ev,                             \* commands and notifications of this tick
  alarmsInSpan,                   \* PHYSICAL_ALARMs since the monitor last read CLOSED
  doorOpenedAt,                   \* time the open door opened (0: closed)
  everAuthorized,                 \* an authorization event has occurred
  alarmError                      \* error the monitor caught since its last completed poll

envVars == <<card, door, doorOpenedAt>>
sharedAuth == <<authorized_door_open, last_authorized_open_time>>
faceVars == <<face_result_queue, face_recognition_pending, face_recognition_start_time,
              active_image_futures, tasks, last_face_recognition_success, timedOut, consumed>>
mainVars == <<mainPc, current_time, last_image_attempt, wake, uncaught, ev>>
alarmVars == <<alarmPc, door_state, alarm_time, door_open_alarm_triggered, alarmsInSpan,
               alarmError>>

vars == <<now, envVars, shutdown_event, sharedAuth, last_motion_time, rfid_queue,
          faceVars, mainVars, alarmVars, rfidPc, watchdogPc, everAuthorized>>

NoEvents == [opens |-> 0, closes |-> 0, card_notes |-> 0, denied_notes |-> 0,
             window_first |-> FALSE, card_auth |-> FALSE, started |-> "none"]

InFlight == {i \in DOMAIN tasks : tasks[i] = "running"}

Init ==
  /\ now = Epoch
  /\ card = "none"
  /\ door = DOOR_CLOSED
  /\ shutdown_event = FALSE
  /\ door_open_alarm_triggered = FALSE
  /\ authorized_door_open = FALSE
  /\ last_authorized_open_time = 0
  /\ last_face_recognition_success = 0
  /\ last_motion_time = 0
  /\ rfid_queue = <<>>
  /\ face_result_queue = <<>>
  /\ face_recognition_pending = FALSE
  /\ face_recognition_start_time = 0
  /\ active_image_futures = {}
  /\ tasks = <<>>
  /\ mainPc = "tick"
  /\ current_time = 0
  /\ last_image_attempt = 0
  /\ wake = 0
  /\ uncaught = FALSE
  /\ alarmPc = "read"
  /\ door_state = DOOR_CLOSED
  /\ alarm_time = 0
  /\ rfidPc = "run"
  /\ watchdogPc = "run"
  /\ timedOut = {}
  /\ consumed = "none"
  /\ ev = NoEvents
  /\ alarmsInSpan = 0
  /\ doorOpenedAt = 0
  /\ everAuthorized = FALSE
  /\ alarmError = "none"

\* ---------------------------------------------------------------- environment

\* Where the main loop sleeps or blocks: line 387/390, 184, 191/197, 207, 306,
\* and after the loop.
MainSleeps == {"tick", "card_hold", "card_wait", "card_delay", "face_hold", "finally", "exited"}

\* Where the monitor sleeps: line 142, and after its loop.
AlarmSleeps == {"read", "stopped"}

Tick(horizon) ==
  /\ now < Epoch + horizon
  /\ mainPc \in MainSleeps
  /\ alarmPc \in AlarmSleeps
  /\ now' = now + 1
  /\ UNCHANGED <<envVars, shutdown_event, sharedAuth, last_motion_time, rfid_queue,
                 faceVars, mainVars, alarmVars, rfidPc, watchdogPc, everAuthorized>>

CardPresented(kind) ==
  /\ card = "none"
  /\ card' = kind
  /\ UNCHANGED <<now, door, doorOpenedAt, shutdown_event, sharedAuth, last_motion_time,
                 rfid_queue, faceVars, mainVars, alarmVars, rfidPc, watchdogPc, everAuthorized>>

\* One presentation of an authorized card: the card comes while no event of an
\* earlier presentation is queued or being processed and nothing has been
\* unlocked yet, so every event processed is a read of this one presentation.
CardPresentedOnce ==
  /\ ~everAuthorized
  /\ rfid_queue = <<>>
  /\ ~ev.card_auth
  /\ CardPresented("auth")

CardRemoved ==
  /\ card # "none"
  /\ card' = "none"
  /\ UNCHANGED <<now, door, doorOpenedAt, shutdown_event, sharedAuth, last_motion_time,
                 rfid_queue, faceVars, mainVars, alarmVars, rfidPc, watchdogPc, everAuthorized>>

DoorOpens ==
  /\ door = DOOR_CLOSED
  /\ door' = DOOR_OPEN
  /\ doorOpenedAt' = now
  /\ UNCHANGED <<now, card, shutdown_event, sharedAuth, last_motion_time, rfid_queue,
                 faceVars, mainVars, alarmVars, rfidPc, watchdogPc, everAuthorized>>

DoorCloses ==
  /\ door = DOOR_OPEN
  /\ door' = DOOR_CLOSED
  /\ doorOpenedAt' = 0
  /\ UNCHANGED <<now, card, shutdown_event, sharedAuth, last_motion_time,
                 rfid_queue, faceVars, mainVars, alarmVars, rfidPc, watchdogPc, everAuthorized>>

\* pir_motion_callback (the debug counter motion_count is not modelled)
pir_motion_callback ==
  /\ last_motion_time # now
  /\ last_motion_time' = now
  /\ UNCHANGED <<now, envVars, shutdown_event, sharedAuth, rfid_queue,
                 faceVars, mainVars, alarmVars, rfidPc, watchdogPc, everAuthorized>>

\* ---------------------------------------------------------------- rfid_reader_thread

RfidRead ==
  /\ rfidPc = "run"
  /\ ~shutdown_event
  /\ card # "none"
  /\ Len(rfid_queue) < MaxQueue
  /\ rfid_queue' = Append(rfid_queue, card = "auth")
  /\ UNCHANGED <<now, envVars, shutdown_event, sharedAuth, last_motion_time,
                 faceVars, mainVars, alarmVars, rfidPc, watchdogPc, everAuthorized>>

RfidStop ==
  /\ rfidPc = "run"
  /\ shutdown_event
  /\ rfidPc' = "stopped"
  /\ UNCHANGED <<now, envVars, shutdown_event, sharedAuth, last_motion_time, rfid_queue,
                 faceVars, mainVars, alarmVars, watchdogPc, everAuthorized>>

\* ---------------------------------------------------------------- alarm_monitor_thread
\* The local current_time (alarm_time) is used on the open branch only and is
\* dead once the poll is over: the model clears it there.  alarmError records
\* an exception the monitor caught; the end of the next poll clears it.

\* line 112-118, 133: loop test, door_state = magnetic_sensor.read(), current_time
AlarmRead ==
  /\ alarmPc = "read"
  /\ ~shutdown_event
  /\ door_state' = door
  /\ alarm_time' = IF door = DOOR_OPEN THEN now ELSE 0
  /\ alarmPc' = IF door = DOOR_OPEN THEN "auth" ELSE "reset"
  /\ alarmsInSpan' = IF door = DOOR_CLOSED THEN 0 ELSE alarmsInSpan
  /\ UNCHANGED <<now, envVars, shutdown_event, sharedAuth, last_motion_time, rfid_queue,
                 faceVars, mainVars, door_open_alarm_triggered, alarmError,
                 rfidPc, watchdogPc, everAuthorized>>

\* A monitor without the handler of line 138: the exception ends the thread.
AlarmReadKills ==
  /\ alarmPc = "read"
  /\ ~shutdown_event
  /\ alarmError' = "read"
  /\ alarmPc' = "stopped"
  /\ UNCHANGED <<now, envVars, shutdown_event, sharedAuth, last_motion_time, rfid_queue,
                 faceVars, mainVars, door_state, alarm_time,
                 door_open_alarm_triggered, alarmsInSpan, rfidPc, watchdogPc, everAuthorized>>

\* line 114, 138-142: magnetic_sensor.read() raises; the handler of the loop
\* body logs it and the monitor sleeps until its next poll
AlarmReadFails ==
  /\ alarmPc = "read"
  /\ ~shutdown_event
  /\ alarmError' = "read"
  /\ UNCHANGED <<now, envVars, shutdown_event, sharedAuth, last_motion_time, rfid_queue,
                 faceVars, mainVars, alarmPc, door_state, alarm_time,
                 door_open_alarm_triggered, alarmsInSpan, rfidPc, watchdogPc, everAuthorized>>

\* A monitor whose loop never tests stop_event.
AlarmStopIgnored ==
  /\ alarmPc = "read"
  /\ shutdown_event
  /\ UNCHANGED vars

\* line 112: the loop test finds stop_event set
AlarmStop ==
  /\ alarmPc = "read"
  /\ shutdown_event
  /\ alarmPc' = "stopped"
  /\ UNCHANGED <<now, envVars, shutdown_event, sharedAuth, last_motion_time, rfid_queue,
                 faceVars, mainVars, door_state, alarm_time, door_open_alarm_triggered,
                 alarmsInSpan, alarmError, rfidPc, watchdogPc, everAuthorized>>

\* A monitor that ignores the authorized flag.
SuppressedNever(flag) == FALSE

\* line 120
Suppressed(flag) == flag

\* line 120: if not authorized_door_open
AlarmCheckAuthorized ==
  /\ alarmPc = "auth"
  /\ IF ~Suppressed(authorized_door_open)
     THEN alarmPc' = "window" /\ UNCHANGED <<alarm_time, alarmError>>
     ELSE alarmPc' = "read" /\ alarm_time' = 0 /\ alarmError' = "none"
  /\ UNCHANGED <<now, envVars, shutdown_event, sharedAuth, last_motion_time, rfid_queue,
                 faceVars, mainVars, door_state, door_open_alarm_triggered,
                 alarmsInSpan, rfidPc, watchdogPc, everAuthorized>>

\* The window comparison inverted.
WindowExpiredInverted(t, since) == (t - since) <= AUTHORIZED_DOOR_OPEN_INTERVAL

\* line 122
WindowExpired(t, since) == (t - since) > AUTHORIZED_DOOR_OPEN_INTERVAL

\* line 122: the time since the last authorized open
AlarmCheckWindow ==
  /\ alarmPc = "window"
  /\ IF WindowExpired(alarm_time, last_authorized_open_time)
     THEN alarmPc' = "emit" /\ UNCHANGED <<alarm_time, alarmError>>
     ELSE alarmPc' = "read" /\ alarm_time' = 0 /\ alarmError' = "none"
  /\ UNCHANGED <<now, envVars, shutdown_event, sharedAuth, last_motion_time, rfid_queue,
                 faceVars, mainVars, door_state, door_open_alarm_triggered,
                 alarmsInSpan, rfidPc, watchdogPc, everAuthorized>>

\* The latch left unset after the notification.
LatchNotSet == FALSE

\* line 129: the latch written after the notification
TriggeredAfterEmit == TRUE

\* line 123-129: send_status_async("PHYSICAL_ALARM") returns
AlarmEmit ==
  /\ alarmPc = "emit"
  /\ alarmPc' = "read"
  /\ alarm_time' = 0
  /\ alarmError' = "none"
  /\ IF ~door_open_alarm_triggered
     THEN /\ alarmsInSpan' = alarmsInSpan + 1
          /\ door_open_alarm_triggered' = TriggeredAfterEmit
     ELSE UNCHANGED <<alarmsInSpan, door_open_alarm_triggered>>
  /\ UNCHANGED <<now, envVars, shutdown_event, sharedAuth, last_motion_time, rfid_queue,
                 faceVars, mainVars, door_state, rfidPc, watchdogPc, everAuthorized>>

\* line 125-129: send_status_async("PHYSICAL_ALARM") raises; the inner handler
\* logs it, no notification leaves, and the latch is set all the same
AlarmEmitFails ==
  /\ alarmPc = "emit"
  /\ ~door_open_alarm_triggered
  /\ alarmPc' = "read"
  /\ alarm_time' = 0
  /\ alarmError' = "emit"
  /\ door_open_alarm_triggered' = TRUE
  /\ UNCHANGED <<now, envVars, shutdown_event, sharedAuth, last_motion_time, rfid_queue,
                 faceVars, mainVars, door_state, alarmsInSpan, rfidPc, watchdogPc,
                 everAuthorized>>

\* line 133-136
AlarmReset ==
  /\ alarmPc = "reset"
  /\ alarmPc' = "read"
  /\ alarmError' = "none"
  /\ door_open_alarm_triggered' = FALSE
  /\ authorized_door_open' = FALSE
  /\ UNCHANGED <<now, envVars, shutdown_event, last_authorized_open_time, last_motion_time,
                 rfid_queue, faceVars, mainVars, door_state, alarm_time, alarmsInSpan,
                 rfidPc, watchdogPc, everAuthorized>>

\* ---------------------------------------------------------------- pir_watchdog_thread
\* An iteration of the watchdog (line 91-106) writes pir_callback_active and its
\* local last_check_time only, which nothing else of the program reads: the
\* model keeps its loop test.

\* line 90: the loop test finds stop_event set
WatchdogStop ==
  /\ watchdogPc = "run"
  /\ shutdown_event
  /\ watchdogPc' = "stopped"
  /\ UNCHANGED <<now, envVars, shutdown_event, sharedAuth, last_motion_time, rfid_queue,
                 faceVars, mainVars, alarmVars, rfidPc, everAuthorized>>

\* ---------------------------------------------------------------- ImageWorker pool, MQTT

\* async_send_image returns True (image sent) or False (send_image raised)
TaskDone(i) ==
  /\ tasks[i] = "running"
  /\ \E ok \in BOOLEAN :
       /\ tasks' = [tasks EXCEPT ![i] = IF ok THEN "sent" ELSE "done"]
       /\ timedOut' = IF ok THEN timedOut ELSE timedOut \ {i}
  /\ UNCHANGED <<now, envVars, shutdown_event, sharedAuth, last_motion_time, rfid_queue,
                 face_result_queue, face_recognition_pending, face_recognition_start_time,
                 active_image_futures, last_face_recognition_success, consumed,
                 mainVars, alarmVars, rfidPc, watchdogPc, everAuthorized>>

\* on_face_result: the verification service answers the image of task i.  The
\* answer is stale when the request that submitted the image has timed out.
on_face_result(i) ==
  /\ tasks[i] = "sent"
  /\ tasks' = [tasks EXCEPT ![i] = "done"]
  /\ timedOut' = timedOut \ {i}
  /\ \E label \in Labels :
       face_result_queue' = Append(face_result_queue,
                                   [label |-> label, stale |-> i \in timedOut])
  /\ UNCHANGED <<now, envVars, shutdown_event, sharedAuth, last_motion_time, rfid_queue,
                 face_recognition_pending, face_recognition_start_time,
                 active_image_futures, last_face_recognition_success, consumed,
                 mainVars, alarmVars, rfidPc, watchdogPc, everAuthorized>>

\* ---------------------------------------------------------------- main loop

\* line 364: current_time = time.time()
MainTick ==
  /\ mainPc = "tick"
  /\ mainPc' = "rfid"
  /\ current_time' = now
  /\ ev' = NoEvents
  /\ UNCHANGED <<now, envVars, shutdown_event, sharedAuth, last_motion_time, rfid_queue,
                 faceVars, last_image_attempt, wake, uncaught, alarmVars, rfidPc, watchdogPc,
                 everAuthorized>>

\* An exception that no handler of the loop catches: main()'s try has only
\* "except KeyboardInterrupt", so it leaves the loop through "finally".
Raise == "finally"

\* ---- process_rfid_events

\* line 166-169: rfid_queue.get_nowait() raises Empty
ProcessRfidEmpty ==
  /\ mainPc = "rfid"
  /\ rfid_queue = <<>>
  /\ mainPc' = "poll"
  /\ UNCHANGED <<now, envVars, shutdown_event, sharedAuth, last_motion_time, rfid_queue,
                 faceVars, current_time, last_image_attempt, wake, uncaught, ev,
                 alarmVars, rfidPc, watchdogPc, everAuthorized>>

\* An authorized event dequeued and left for later: the tick goes on to the
\* recognition poll without the unlock.
ProcessRfidAuthorizedDeferred ==
  /\ mainPc = "rfid"
  /\ rfid_queue # <<>>
  /\ Head(rfid_queue)
  /\ rfid_queue' = Tail(rfid_queue)
  /\ ev' = [ev EXCEPT !.card_auth = TRUE]
  /\ mainPc' = "poll"
  /\ UNCHANGED <<now, envVars, shutdown_event, sharedAuth, last_motion_time,
                 faceVars, current_time, last_image_attempt, wake, uncaught,
                 alarmVars, rfidPc, watchdogPc, everAuthorized>>

\* line 174-179: an authorized card, send_status_async("AUTHORIZED_CARD")
ProcessRfidAuthorized ==
  /\ mainPc = "rfid"
  /\ rfid_queue # <<>>
  /\ Head(rfid_queue)
  /\ rfid_queue' = Tail(rfid_queue)
  /\ ev' = [ev EXCEPT !.card_notes = @ + 1, !.card_auth = TRUE]
  /\ mainPc' = "card_auth"
  /\ UNCHANGED <<now, envVars, shutdown_event, sharedAuth, last_motion_time,
                 faceVars, current_time, last_image_attempt, wake, uncaught,
                 alarmVars, rfidPc, watchdogPc, everAuthorized>>

\* line 199-207: an unauthorized card, send_status_async("UNAUTHORIZED_CARD")
ProcessRfidDenied ==
  /\ mainPc = "rfid"
  /\ rfid_queue # <<>>
  /\ ~Head(rfid_queue)
  /\ rfid_queue' = Tail(rfid_queue)
  /\ ev' = [ev EXCEPT !.denied_notes = @ + 1]
  /\ mainPc' = "card_delay"
  /\ UNCHANGED <<now, envVars, shutdown_event, sharedAuth, last_motion_time,
                 faceVars, current_time, last_image_attempt, wake, uncaught,
                 alarmVars, rfidPc, watchdogPc, everAuthorized>>

\* line 181: authorized_door_open = True
CardSetAuthorized ==
  /\ mainPc = "card_auth"
  /\ authorized_door_open' = TRUE
  /\ everAuthorized' = TRUE
  /\ mainPc' = "card_time"
  /\ UNCHANGED <<now, envVars, shutdown_event, last_authorized_open_time, last_motion_time,
                 rfid_queue, faceVars, current_time, last_image_attempt, wake, uncaught, ev,
                 alarmVars, rfidPc, watchdogPc>>

\* line 182: last_authorized_open_time = time.time()
CardSetTime ==
  /\ mainPc = "card_time"
  /\ last_authorized_open_time' = now
  /\ ev' = [ev EXCEPT !.window_first = (ev.opens = 0)]
  /\ mainPc' = "card_open"
  /\ UNCHANGED <<now, envVars, shutdown_event, authorized_door_open, last_motion_time,
                 rfid_queue, faceVars, current_time, last_image_attempt, wake, uncaught,
                 alarmVars, rfidPc, watchdogPc, everAuthorized>>

\* line 183: servo.set_angle(180), which returns or raises; time.sleep(2) starts
CardServoOpen ==
  /\ mainPc = "card_open"
  /\ ev' = [ev EXCEPT !.opens = @ + 1]
  /\ \E ok \in BOOLEAN :
       IF ok THEN /\ mainPc' = "card_hold"
                  /\ wake' = now + HOLD_SECONDS
                  /\ UNCHANGED uncaught
             ELSE /\ mainPc' = Raise
                  /\ uncaught' = TRUE
                  /\ UNCHANGED wake
  /\ UNCHANGED <<now, envVars, shutdown_event, sharedAuth, last_motion_time, rfid_queue,
                 faceVars, current_time, last_image_attempt, alarmVars, rfidPc, watchdogPc, everAuthorized>>

\* line 184-185: the sleep ends, servo.set_angle(0)
CardServoClose ==
  /\ mainPc = "card_hold"
  /\ now >= wake
  /\ ev' = [ev EXCEPT !.closes = @ + 1]
  /\ wake' = 0
  /\ \E ok \in BOOLEAN :
       IF ok THEN mainPc' = "card_wait" /\ UNCHANGED uncaught
             ELSE mainPc' = Raise /\ uncaught' = TRUE
  /\ UNCHANGED <<now, envVars, shutdown_event, sharedAuth, last_motion_time, rfid_queue,
                 faceVars, current_time, last_image_attempt, alarmVars, rfidPc, watchdogPc, everAuthorized>>

\* line 189-193: reader.read_card() reports no card, the loop ends.  While it
\* reports a card the loop sleeps 0.1 s and reads again: the main loop stays
\* here.
CardWaitRemoved ==
  /\ mainPc = "card_wait"
  /\ card = "none"
  /\ mainPc' = "card_delay"
  /\ UNCHANGED <<now, envVars, shutdown_event, sharedAuth, last_motion_time, rfid_queue,
                 faceVars, current_time, last_image_attempt, wake, uncaught, ev,
                 alarmVars, rfidPc, watchdogPc, everAuthorized>>

\* line 194-196: reader.read_card() raises, the loop is abandoned
CardWaitRaises ==
  /\ mainPc = "card_wait"
  /\ mainPc' = "card_delay"
  /\ UNCHANGED <<now, envVars, shutdown_event, sharedAuth, last_motion_time, rfid_queue,
                 faceVars, current_time, last_image_attempt, wake, uncaught, ev,
                 alarmVars, rfidPc, watchdogPc, everAuthorized>>

\* line 189-197: the wait for the removal of the card
CardWaitRemoval == CardWaitRemoved \/ CardWaitRaises

\* line 207: time.sleep(0.5) after a card of either kind
CardDelay ==
  /\ mainPc = "card_delay"
  /\ mainPc' = "poll"
  /\ UNCHANGED <<now, envVars, shutdown_event, sharedAuth, last_motion_time, rfid_queue,
                 faceVars, current_time, last_image_attempt, wake, uncaught, ev,
                 alarmVars, rfidPc, watchdogPc, everAuthorized>>

\* ---- check_face_recognition_result

\* line 274-282: futures that are done leave active_image_futures
Reap(futures) == {i \in futures : tasks[i] = "running"}

\* The timeout compared with the wrong constant.
TimedOutLate(t, start) == (t - start) > FACE_RECOGNITION_COOLDOWN

\* A poll without the timeout.
TimedOutNever(t, start) == FALSE

\* line 285
TimedOut(t, start) == (t - start) > FACE_RECOGNITION_TIMEOUT

\* A poll that reaps the finished futures before it tests the pending flag.
PollIdleReaps ==
  /\ mainPc = "poll"
  /\ ~face_recognition_pending
  /\ active_image_futures' = Reap(active_image_futures)
  /\ mainPc' = "gate"
  /\ UNCHANGED <<now, envVars, shutdown_event, sharedAuth, last_motion_time, rfid_queue,
                 face_result_queue, face_recognition_pending, face_recognition_start_time,
                 tasks, last_face_recognition_success, timedOut, consumed,
                 current_time, last_image_attempt, wake, uncaught, ev,
                 alarmVars, rfidPc, watchdogPc, everAuthorized>>

\* line 268-269
PollIdle ==
  /\ mainPc = "poll"
  /\ ~face_recognition_pending
  /\ mainPc' = "gate"
  /\ UNCHANGED <<now, envVars, shutdown_event, sharedAuth, last_motion_time, rfid_queue,
                 faceVars, current_time, last_image_attempt, wake, uncaught, ev,
                 alarmVars, rfidPc, watchdogPc, everAuthorized>>

\* line 271-288
PollTimeout ==
  /\ mainPc = "poll"
  /\ face_recognition_pending
  /\ TimedOut(now, face_recognition_start_time)
  /\ active_image_futures' = Reap(active_image_futures)
  /\ face_recognition_pending' = FALSE
  /\ timedOut' = IF tasks[Len(tasks)] = "done" THEN timedOut ELSE timedOut \cup {Len(tasks)}
  /\ mainPc' = "gate"
  /\ UNCHANGED <<now, envVars, shutdown_event, sharedAuth, last_motion_time, rfid_queue,
                 face_result_queue, face_recognition_start_time, tasks,
                 last_face_recognition_success, consumed,
                 current_time, last_image_attempt, wake, uncaught, ev,
                 alarmVars, rfidPc, watchdogPc, everAuthorized>>

\* line 291-292, 313-315: face_result_queue.get_nowait() raises Empty
PollEmpty ==
  /\ mainPc = "poll"
  /\ face_recognition_pending
  /\ ~TimedOut(now, face_recognition_start_time)
  /\ face_result_queue = <<>>
  /\ active_image_futures' = Reap(active_image_futures)
  /\ mainPc' = "gate"
  /\ UNCHANGED <<now, envVars, shutdown_event, sharedAuth, last_motion_time, rfid_queue,
                 face_result_queue, face_recognition_pending, face_recognition_start_time,
                 tasks, last_face_recognition_success, timedOut, consumed,
                 current_time, last_image_attempt, wake, uncaught, ev,
                 alarmVars, rfidPc, watchdogPc, everAuthorized>>

\* Every label taken for a recognised face.
RecognisedAlways(label) == TRUE

\* line 295
Recognised(label) == label # "unknown"

\* line 291-298, 309-311: a result is read; a recognised face sets authorized_door_open
PollResult ==
  /\ mainPc = "poll"
  /\ face_recognition_pending
  /\ ~TimedOut(now, face_recognition_start_time)
  /\ face_result_queue # <<>>
  /\ active_image_futures' = Reap(active_image_futures)
  /\ face_result_queue' = Tail(face_result_queue)
  /\ face_recognition_pending' = FALSE
  /\ consumed' = IF Head(face_result_queue).stale THEN "stale" ELSE "fresh"
  /\ IF Recognised(Head(face_result_queue).label)
     THEN /\ authorized_door_open' = TRUE
          /\ everAuthorized' = TRUE
          /\ mainPc' = "face_time"
     ELSE /\ UNCHANGED <<authorized_door_open, everAuthorized>>
          /\ mainPc' = "gate"
  /\ UNCHANGED <<now, envVars, shutdown_event, last_authorized_open_time, last_motion_time,
                 rfid_queue, face_recognition_start_time, tasks,
                 last_face_recognition_success, timedOut,
                 current_time, last_image_attempt, wake, uncaught, ev,
                 alarmVars, rfidPc, watchdogPc>>

\* line 300
SuccessTime(t) == t

\* line 299-304: both clocks, send_status_async("AUTHORIZED_CARD")
FaceSetTime ==
  /\ mainPc = "face_time"
  /\ last_authorized_open_time' = now
  /\ last_face_recognition_success' = SuccessTime(now)
  /\ ev' = [ev EXCEPT !.card_notes = @ + 1]
  /\ mainPc' = "face_open"
  /\ UNCHANGED <<now, envVars, shutdown_event, authorized_door_open, last_motion_time,
                 rfid_queue, face_result_queue, face_recognition_pending,
                 face_recognition_start_time, active_image_futures, tasks, timedOut,
                 consumed, current_time, last_image_attempt, wake, uncaught,
                 alarmVars, rfidPc, watchdogPc, everAuthorized>>

\* line 305
FaceServoOpen ==
  /\ mainPc = "face_open"
  /\ ev' = [ev EXCEPT !.opens = @ + 1]
  /\ \E ok \in BOOLEAN :
       IF ok THEN /\ mainPc' = "face_hold"
                  /\ wake' = now + HOLD_SECONDS
                  /\ UNCHANGED uncaught
             ELSE /\ mainPc' = Raise
                  /\ uncaught' = TRUE
                  /\ UNCHANGED wake
  /\ UNCHANGED <<now, envVars, shutdown_event, sharedAuth, last_motion_time, rfid_queue,
                 faceVars, current_time, last_image_attempt, alarmVars, rfidPc, watchdogPc, everAuthorized>>

\* line 306-308
FaceServoClose ==
  /\ mainPc = "face_hold"
  /\ now >= wake
  /\ ev' = [ev EXCEPT !.closes = @ + 1]
  /\ wake' = 0
  /\ \E ok \in BOOLEAN :
       IF ok THEN mainPc' = "gate" /\ UNCHANGED uncaught
             ELSE mainPc' = Raise /\ uncaught' = TRUE
  /\ UNCHANGED <<now, envVars, shutdown_event, sharedAuth, last_motion_time, rfid_queue,
                 faceVars, current_time, last_image_attempt, alarmVars, rfidPc, watchdogPc, everAuthorized>>

\* ---- the proximity gate and start_face_recognition

\* line 211-213
MotionRecent(t) == (t - last_motion_time) <= MOTION_WINDOW

\* line 218
DistanceOk(d) == d # DIST_ERROR /\ d # DIST_NONE /\ d <= DISTANCE_THRESHOLD

\* line 209-226: check_motion_and_distance with the reading d of the ultrasonic sensor
check_motion_and_distance(d) == MotionRecent(now) /\ DistanceOk(d)

\* The gate without its test of face_recognition_pending.
GateOpenWhilePending ==
  /\ (current_time - last_image_attempt) > IMAGE_COOLDOWN
  /\ (current_time - last_face_recognition_success) > FACE_RECOGNITION_COOLDOWN

\* The gate without its test of the recognition cooldown.
GateOpenNoCooldown ==
  /\ ~face_recognition_pending
  /\ (current_time - last_image_attempt) > IMAGE_COOLDOWN

\* line 374-376
GateOpen ==
  /\ ~face_recognition_pending
  /\ (current_time - last_image_attempt) > IMAGE_COOLDOWN
  /\ (current_time - last_face_recognition_success) > FACE_RECOGNITION_COOLDOWN

\* The pool limit off by one.
PoolFullOffByOne(futures) == Cardinality(futures) > POOL_LIMIT

\* line 247
PoolFull(futures) == Cardinality(futures) >= POOL_LIMIT

\* The history of a tick ends with it: only the outcome of start_face_recognition
\* stays until the next tick begins.  The local current_time is dead then.
EndOfTick(outcome) ==
  /\ mainPc' = "tick"
  /\ current_time' = 0
  /\ consumed' = "none"
  /\ ev' = [NoEvents EXCEPT !.started = outcome]

\* line 374-378, 390: the gate does not pass; the loop sleeps and starts over
GateSkip ==
  /\ mainPc = "gate"
  /\ \E d \in DistanceReadings : ~(GateOpen /\ check_motion_and_distance(d))
  /\ EndOfTick("none")
  /\ UNCHANGED <<now, envVars, shutdown_event, sharedAuth, last_motion_time, rfid_queue,
                 face_result_queue, face_recognition_pending, face_recognition_start_time,
                 active_image_futures, tasks, last_face_recognition_success, timedOut,
                 last_image_attempt, wake, uncaught, alarmVars, rfidPc, watchdogPc, everAuthorized>>

\* line 379-380, 239-262: the gate passes, start_face_recognition() is called
\* (image_executor.submit raises only once the executor is shut down, after
\* the loop)
GateStart ==
  /\ mainPc = "gate"
  /\ \E d \in DistanceReadings : GateOpen /\ check_motion_and_distance(d)
  /\ last_image_attempt' = current_time
  /\ LET live == Reap(active_image_futures)
         id == Len(tasks) + 1
     IN IF PoolFull(live)
        THEN /\ active_image_futures' = live
             /\ EndOfTick("false")
             /\ UNCHANGED <<tasks, face_recognition_pending, face_recognition_start_time>>
        ELSE /\ tasks' = Append(tasks, "running")
             /\ active_image_futures' = live \cup {id}
             /\ face_recognition_pending' = TRUE
             /\ face_recognition_start_time' = now
             /\ EndOfTick("true")
  /\ UNCHANGED <<now, envVars, shutdown_event, sharedAuth, last_motion_time, rfid_queue,
                 face_result_queue, last_face_recognition_success, timedOut,
                 wake, uncaught, alarmVars, rfidPc, watchdogPc, everAuthorized>>

\* line 392-393: KeyboardInterrupt reaches the main thread inside the loop
KeyboardInterrupt ==
  /\ mainPc \notin {"finally", "exited"}
  /\ mainPc' = "finally"
  /\ UNCHANGED <<now, envVars, shutdown_event, sharedAuth, last_motion_time, rfid_queue,
                 faceVars, current_time, last_image_attempt, wake, uncaught, ev,
                 alarmVars, rfidPc, watchdogPc, everAuthorized>>

\* line 395-397: finally: shutdown_event.set(); the exception then ends the process
MainFinally ==
  /\ mainPc = "finally"
  /\ shutdown_event' = TRUE
  /\ mainPc' = "exited"
  /\ UNCHANGED <<now, envVars, sharedAuth, last_motion_time, rfid_queue,
                 faceVars, current_time, last_image_attempt, wake, uncaught, ev,
                 alarmVars, rfidPc, watchdogPc, everAuthorized>>

\* ---------------------------------------------------------------- specification

Cards == CardPresented("auth") \/ CardPresented("unauth") \/ CardRemoved

Door == DoorOpens \/ DoorCloses

rfid_reader_thread == RfidRead \/ RfidStop

alarm_monitor_thread ==
  \/ AlarmRead
  \/ AlarmReadFails
  \/ AlarmStop
  \/ AlarmCheckAuthorized
  \/ AlarmCheckWindow
  \/ AlarmEmit
  \/ AlarmEmitFails
  \/ AlarmReset

pir_watchdog_thread == WatchdogStop

Workers ==
  \/ \E i \in DOMAIN tasks : TaskDone(i)
  \/ \E i \in DOMAIN tasks : on_face_result(i)

process_rfid_events ==
  \/ ProcessRfidEmpty
  \/ ProcessRfidAuthorized
  \/ ProcessRfidDenied
  \/ CardSetAuthorized
  \/ CardSetTime
  \/ CardServoOpen
  \/ CardServoClose
  \/ CardWaitRemoval
  \/ CardDelay

check_face_recognition_result ==
  \/ PollIdle
  \/ PollTimeout
  \/ PollEmpty
  \/ PollResult
  \/ FaceSetTime
  \/ FaceServoOpen
  \/ FaceServoClose

main ==
  \/ MainTick
  \/ process_rfid_events
  \/ check_face_recognition_result
  \/ GateSkip
  \/ GateStart
  \/ KeyboardInterrupt
  \/ MainFinally

\* The whole program.
Next ==
  \/ Tick(FaceHorizon)
  \/ Cards
  \/ Door
  \/ pir_motion_callback
  \/ rfid_reader_thread
  \/ alarm_monitor_thread
  \/ pir_watchdog_thread
  \/ Workers
  \/ main

Spec == Init /\ [][Next]_vars

\* The product of all threads is beyond exhaustive search; the claims are
\* checked on three scenarios, each the program with part of its environment
\* silent and the threads that this leaves without effect on the claim left out.

\* Recognition: nobody presents a card; the door and its monitor are left out.
NextFace ==
  \/ Tick(FaceHorizon)
  \/ pir_motion_callback
  \/ Workers
  \/ MainTick
  \/ ProcessRfidEmpty
  \/ check_face_recognition_result
  \/ GateSkip
  \/ GateStart
  \/ MainFinally

SpecFace == Init /\ [][NextFace]_vars

\* Unlocking by card and by face: every card presented is an authorized one;
\* the door and its monitor are left out.
NextUnlock ==
  \/ Tick(UnlockHorizon)
  \/ CardPresented("auth")
  \/ CardRemoved
  \/ pir_motion_callback
  \/ rfid_reader_thread
  \/ Workers
  \/ MainTick
  \/ ProcessRfidEmpty
  \/ ProcessRfidAuthorized
  \/ CardSetAuthorized
  \/ CardSetTime
  \/ CardServoOpen
  \/ CardServoClose
  \/ CardWaitRemoval
  \/ CardDelay
  \/ check_face_recognition_result
  \/ GateSkip
  \/ GateStart
  \/ MainFinally

SpecUnlock == Init /\ [][NextUnlock]_vars

\* The door and its monitor, authorizations coming from cards: no motion is
\* sensed, so no recognition attempt starts; the door sensor and the
\* notification sink do not fail.
NextAlarm ==
  \/ Tick(AlarmHorizon)
  \/ Cards
  \/ Door
  \/ rfid_reader_thread
  \/ AlarmRead
  \/ AlarmStop
  \/ AlarmCheckAuthorized
  \/ AlarmCheckWindow
  \/ AlarmEmit
  \/ AlarmReset
  \/ MainTick
  \/ process_rfid_events
  \/ PollIdle
  \/ GateSkip
  \/ MainFinally

SpecAlarm == Init /\ [][NextAlarm]_vars

\* One presentation of an authorized card, no face, no door.
NextCard ==
  \/ Tick(CardHorizon)
  \/ CardPresentedOnce
  \/ CardRemoved
  \/ rfid_reader_thread
  \/ MainTick
  \/ ProcessRfidEmpty
  \/ ProcessRfidAuthorized
  \/ CardSetAuthorized
  \/ CardSetTime
  \/ CardServoOpen
  \/ CardServoClose
  \/ CardWaitRemoval
  \/ CardDelay
  \/ PollIdle
  \/ GateSkip
  \/ MainFinally

SpecCard == Init /\ [][NextCard]_vars

\* The steps of the main loop in which every call returns and no read of the
\* card reader fails.
MainReturns ==
  \/ MainTick
  \/ ProcessRfidEmpty
  \/ ProcessRfidAuthorized
  \/ CardSetAuthorized
  \/ CardSetTime
  \/ CardServoOpen
  \/ CardServoClose
  \/ CardWaitRemoved
  \/ CardDelay
  \/ PollIdle
  \/ GateSkip
  \/ MainFinally

\* The threads are scheduled: the main loop and the reader thread each take a
\* step they can take.  Nothing makes the holder of the card remove it, and
\* nothing makes a read of the reader fail.  (An iteration of the removal wait
\* that finds the card still there changes no variable: the main loop looping
\* there shows as a behaviour that stays in "card_wait".)
SpecCardLive ==
  /\ SpecCard
  /\ WF_vars(MainReturns)
  /\ WF_vars(rfid_reader_thread)

\* Negative decisions: every card presented is an unauthorized one, faces are
\* answered with any label; the door and its monitor are left out.
NextDenied ==
  \/ Tick(DeniedHorizon)
  \/ CardPresented("unauth")
  \/ CardRemoved
  \/ pir_motion_callback
  \/ rfid_reader_thread
  \/ Workers
  \/ MainTick
  \/ ProcessRfidEmpty
  \/ ProcessRfidDenied
  \/ CardDelay
  \/ check_face_recognition_result
  \/ GateSkip
  \/ GateStart
  \/ MainFinally

SpecDenied == Init /\ [][NextDenied]_vars

\* The background pollers, their failures and the shutdown: every card
\* presented is an unauthorized one and no motion is sensed; the door sensor and
\* the notification sink may fail, and the main loop may be interrupted from
\* the keyboard.
NextMonitor ==
  \/ Tick(MonitorHorizon)
  \/ CardPresented("unauth")
  \/ CardRemoved
  \/ Door
  \/ rfid_reader_thread
  \/ alarm_monitor_thread
  \/ pir_watchdog_thread
  \/ MainTick
  \/ ProcessRfidEmpty
  \/ ProcessRfidDenied
  \/ CardDelay
  \/ PollIdle
  \/ GateSkip
  \/ KeyboardInterrupt
  \/ MainFinally

SpecMonitor == Init /\ [][NextMonitor]_vars

\* The three pollers are threads of their own and are scheduled: each takes a
\* step it can take (every read of a collaborator returns or raises).
SpecMonitorLive ==
  /\ SpecMonitor
  /\ WF_vars(rfid_reader_thread)
  /\ WF_vars(alarm_monitor_thread)
  /\ WF_vars(pir_watchdog_thread)

\* Recognition with the clock and the main loop kept going.
NextFaceLive ==
  \/ Tick(LiveHorizon)
  \/ pir_motion_callback
  \/ Workers
  \/ MainTick
  \/ ProcessRfidEmpty
  \/ check_face_recognition_result
  \/ GateSkip
  \/ GateStart
  \/ MainFinally

\* The steps of the main loop in this scenario.
MainFaceSteps ==
  \/ MainTick
  \/ ProcessRfidEmpty
  \/ check_face_recognition_result
  \/ GateSkip
  \/ GateStart
  \/ MainFinally

\* The main thread is scheduled, and time advances: the loop sleeps in every
\* tick (line 390), so the clock, which advances only while it sleeps, gets its
\* chance again and again.  Nothing makes a capture task end or a result come.
SpecFaceLive ==
  /\ Init /\ [][NextFaceLive]_vars
  /\ WF_vars(MainFaceSteps)
  /\ SF_vars(Tick(LiveHorizon))

\* ---------------------------------------------------------------- claims

\* start_face_recognition() is called in this step: main() records
\* last_image_attempt right before the call.
StartCalled == last_image_attempt' # last_image_attempt

\* C1: a verification result that arrives after the local timeout of its
\* request has fired never opens the authorization window, never sets the
\* cooldown clock and never commands the actuator, also when a later request
\* is pending when it is read.
C1_StaleResultDiscarded ==
  ~(consumed = "stale" /\ mainPc \in {"face_time", "face_open", "face_hold"})

\* C2 as stated: after any unlock, by card or by face, start_face_recognition
\* is not called until more than FACE_RECOGNITION_COOLDOWN has passed since it.
C2_CooldownAfterAnyUnlock ==
  [][(StartCalled /\ last_authorized_open_time # 0)
       => (now - last_authorized_open_time) > 10]_vars

\* C2 as amended: after an unlock by a recognised face, start_face_recognition
\* is not called until more than FACE_RECOGNITION_COOLDOWN has passed since it.
C2_CooldownAfterFaceUnlock ==
  [][(StartCalled /\ last_face_recognition_success # 0)
       => (now - last_face_recognition_success) > 10]_vars

\* C2 witness: after a face unlock the gate is reached with motion recent, no
\* request pending and the image cooldown over, and only the recognition
\* cooldown holds it shut.
C2_Witness ==
  /\ mainPc = "gate"
  /\ last_face_recognition_success # 0
  /\ ~face_recognition_pending
  /\ (current_time - last_image_attempt) > 3
  /\ (now - last_motion_time) <= 5
  /\ (current_time - last_face_recognition_success) <= 10

\* C3 as stated: the alarm is triggered exactly when the door is open, the
\* authorized flag is false and more than AUTHORIZED_WINDOW has passed since
\* the last authorization.  It is stated where the monitor has completed a
\* poll, of the door as that poll read it.  (The notify-once conjunct of the
\* claim speaks of the notification; C5 states it.)
C3_TriggeredIffUnauthorizedOpen ==
  alarmPc = "read" =>
    (door_open_alarm_triggered <=>
       /\ door_state = DOOR_OPEN
       /\ ~authorized_door_open
       /\ (now - last_authorized_open_time) > 5)

\* C3 as amended: a poll of the monitor sets the alarm (false to true) iff it
\* read the door open, then read the authorized flag false, then found more
\* than AUTHORIZED_WINDOW between its clock reading and the last authorization
\* time, and the alarm was not set; the alarm stays set, whatever is authorized
\* meanwhile, until a poll that read the door closed clears it.
C3_TriggeredByPoll ==
  [][/\ (alarmPc = "read" /\ alarmPc' \notin {"read", "stopped"})
          => (door_state' = door /\ (alarmPc' = "auth" <=> door = DOOR_OPEN))
     /\ (alarmPc = "auth" /\ alarmPc' # "auth")
          => (alarmPc' = "window" <=> ~authorized_door_open)
     /\ (alarmPc = "window" /\ alarmPc' # "window")
          => (alarmPc' = "emit" <=> (alarm_time - last_authorized_open_time) > 5)
     /\ (alarmPc' = "auth" => alarmPc \in {"read", "auth"})
     /\ (alarmPc' = "window" => alarmPc \in {"auth", "window"})
     /\ (alarmPc' = "emit" => alarmPc \in {"window", "emit"})
     /\ (door_open_alarm_triggered' /\ ~door_open_alarm_triggered)
          <=> (alarmPc = "emit" /\ alarmPc' # "emit" /\ ~door_open_alarm_triggered)
     /\ (~door_open_alarm_triggered' /\ door_open_alarm_triggered)
          => (alarmPc = "reset" /\ door_state = DOOR_CLOSED)]_vars

\* C3 witness: the alarm is set, the door is still open, and an authorization
\* has arrived since.
C3_Witness ==
  /\ door_open_alarm_triggered
  /\ authorized_door_open
  /\ door = DOOR_OPEN
  /\ door_state = DOOR_OPEN

\* C4 as stated: with no authorization event ever, no PHYSICAL_ALARM is emitted
\* before AUTHORIZED_WINDOW has passed since the door opened.
C4_AlarmFiveSecondsAfterOpening ==
  (~everAuthorized /\ alarmsInSpan >= 1 /\ door = DOOR_OPEN)
    => (now - doorOpenedAt) >= 5

\* C4 as amended: with no authorization event ever, PHYSICAL_ALARM is emitted
\* by the first poll of the monitor that reads the door open (every completed
\* poll that read it open has left one alarm emitted), and none is emitted
\* unless a poll read the door open.
C4_AlarmAtFirstOpenPoll ==
  ~everAuthorized =>
    /\ (alarmPc = "read" /\ door_state = DOOR_OPEN) => alarmsInSpan = 1
    /\ alarmsInSpan >= 1 => door_state = DOOR_OPEN

\* C4 witness: no authorization event ever, and the alarm has been emitted less
\* than AUTHORIZED_WINDOW after the door opened.
C4_Witness ==
  /\ ~everAuthorized
  /\ door = DOOR_OPEN
  /\ alarmsInSpan = 1
  /\ (now - doorOpenedAt) < 5

\* C5: between two CLOSED readings of the monitor at most one PHYSICAL_ALARM is
\* emitted.
C5_NotifyOnce == alarmsInSpan <= 1

\* C5 witness: a later poll of the same open span reaches the notification
\* with one alarm already emitted.
C5_Witness ==
  /\ alarmPc = "emit"
  /\ alarmsInSpan = 1
  /\ door_open_alarm_triggered

\* C6: at most 2 capture tasks are in flight after every step, and a call of
\* start_face_recognition with 2 in flight returns False, submits no task and
\* leaves face_recognition_pending and face_recognition_start_time alone.
C6_PoolBound ==
  [][/\ Cardinality(InFlight') <= 2
     /\ (StartCalled /\ Cardinality(InFlight) >= 2)
          => /\ ev'.started = "false"
             /\ UNCHANGED <<tasks, face_recognition_pending,
                            face_recognition_start_time>>]_vars

\* C6 witness: a call has just been refused with 2 tasks in flight.
C6_Witness ==
  /\ ev.started = "false"
  /\ Cardinality(InFlight) = 2

\* C7: start_face_recognition is never called while a request is pending.
C7_NoStartWhilePending ==
  [][StartCalled => ~face_recognition_pending]_vars

\* C7 witness: the gate is reached with a request pending and every other
\* condition of it met.
C7_Witness ==
  /\ mainPc = "gate"
  /\ face_recognition_pending
  /\ (current_time - last_image_attempt) > 3
  /\ (current_time - last_face_recognition_success) > 10
  /\ (now - last_motion_time) <= 5

\* The events of this tick are all of the authorized card's unlock sequence,
\* and the sequence is over (by its end or by an exception).
CardSequenceOver ==
  /\ ev.card_auth
  /\ consumed = "none"
  /\ mainPc \in {"card_wait", "card_delay", "finally"}

\* C8: the processing of one authorized identity event issues exactly one open
\* command, then exactly one close command, exactly one AUTHORIZED_CARD
\* notification, and opens the authorization window before the open command.
C8_OneUnlockSequence ==
  CardSequenceOver =>
    /\ ev.opens = 1
    /\ ev.closes = 1
    /\ ev.card_notes = 1
    /\ ev.window_first

\* C9: a poll that finds the request pending for more than
\* FACE_RECOGNITION_TIMEOUT clears the pending flag and does nothing else: no
\* actuator command, no notification, no change of the authorization window or
\* of the cooldown clock, no result consumed.
C9_TimeoutOnlyClearsPending ==
  [][(/\ mainPc = "poll"
      /\ mainPc' # "poll"
      /\ face_recognition_pending
      /\ (now - face_recognition_start_time) > 5)
       => /\ ~face_recognition_pending'
          /\ mainPc' = "gate"
          /\ UNCHANGED <<ev, authorized_door_open, last_authorized_open_time,
                         last_face_recognition_success, face_result_queue,
                         consumed>>]_vars

\* C9 witness: the poll of this tick has timed the latest request out, for
\* which no result has arrived.
C9_Witness ==
  /\ mainPc = "gate"
  /\ ~face_recognition_pending
  /\ Len(tasks) \in timedOut
  /\ face_result_queue = <<>>
  /\ (now - face_recognition_start_time) > 5

\* C10: a servo.set_angle that raises is handled where it happens: no exception
\* leaves the main loop, which goes on.
C10_ActuatorFailureHandled ==
  ~uncaught /\ mainPc \notin {"finally", "exited"}

\* C11: the wait for the removal of the card ends, also when the reader
\* reports a card on every read and no read fails: a tick that has processed an
\* authorized card reaches the recognition poll.
C11_RemovalWaitEnds == (mainPc = "card_wait") ~> (mainPc = "poll")

\* C13: one presentation of an authorized card starts one unlock sequence: once
\* the card has unlocked and has been removed, no further event of it is
\* processed as an unlock.
C13_OneUnlockPerPresentation ==
  [][(mainPc = "rfid" /\ mainPc' = "card_auth" /\ card = "none") => ~everAuthorized]_vars

\* C12: a poll of the monitor that has read the door open more than
\* AUTHORIZED_DOOR_OPEN_INTERVAL after the start of the last authorization
\* window does not stop at the authorized flag: it goes on to the alarm,
\* whatever the flag says.  (The window has a start: the main loop has written
\* last_authorized_open_time and is not between its two writes; no exception
\* has left the main loop.)
C12_FlagExpiresWithWindow ==
  [][(/\ alarmPc = "auth"
      /\ alarmPc' # "auth"
      /\ ~uncaught
      /\ last_authorized_open_time # 0
      /\ mainPc \notin {"card_time", "face_time"}
      /\ (alarm_time - last_authorized_open_time) > 5)
       => alarmPc' = "window"]_vars

C15_NoAlarmAfterAuthorization ==
  [][alarmsInSpan' = alarmsInSpan + 1
       => ~(authorized_door_open /\ last_authorized_open_time = now)]_vars

\* C16: a negative decision never unlocks.  The drain of an unauthorized event
\* sends one UNAUTHORIZED_CARD notification and nothing else, and the poll that
\* reads "unknown" sends nothing: neither commands the servo, neither changes
\* authorized_door_open, last_authorized_open_time or
\* last_face_recognition_success, and neither enters an unlock sequence.
C16_NegativeNeverUnlocks ==
  [][/\ (mainPc = "rfid" /\ mainPc' # "rfid" /\ rfid_queue # <<>> /\ ~Head(rfid_queue))
          => /\ mainPc' = "card_delay"
             /\ ev' = [ev EXCEPT !.denied_notes = @ + 1]
             /\ UNCHANGED <<authorized_door_open, last_authorized_open_time,
                            last_face_recognition_success>>
     /\ (mainPc = "card_delay" /\ mainPc' # "card_delay")
          => /\ mainPc' = "poll"
             /\ UNCHANGED <<ev, authorized_door_open, last_authorized_open_time,
                            last_face_recognition_success>>
     /\ (/\ mainPc = "poll"
         /\ mainPc' # "poll"
         /\ face_result_queue # <<>>
         /\ face_result_queue' = Tail(face_result_queue)
         /\ Head(face_result_queue).label = "unknown")
          => /\ mainPc' = "gate"
             /\ UNCHANGED <<ev, authorized_door_open, last_authorized_open_time,
                            last_face_recognition_success>>]_vars

\* C16 witness: in one tick an unauthorized card has been denied and a result
\* has been consumed that commanded nothing, an "unknown".
C16_Witness ==
  /\ mainPc = "gate"
  /\ ev.denied_notes = 1
  /\ consumed # "none"
  /\ ev.opens = 0
  /\ ev.card_notes = 0

\* C17: no failure ends the monitor.  A step in which the monitor catches an
\* error of the door read or of the notification leaves it at the head of its
\* loop (alarmPc = "read"), where its next step is a poll or, with
\* shutdown_event set, its stop; the monitor stops only with shutdown_event set.
C17_MonitorSurvivesErrors ==
  [][/\ (alarmError' # "none" /\ alarmError' # alarmError)
          => alarmPc' = "read"
     /\ (alarmPc' = "stopped" /\ alarmPc # "stopped") => shutdown_event]_vars

\* C17 witness: the monitor is in the middle of a poll that follows an error it
\* caught.
C17_Witness ==
  /\ alarmError # "none"
  /\ alarmPc \in {"auth", "window", "emit", "reset"}

\* C18: once shutdown_event is set every poller stops (the reader thread, the
\* monitor, the watchdog); from then on no poller begins another iteration (no
\* card read is queued, no poll of the door begins), and a poller that has
\* stopped stays stopped.
C18_PollersStop ==
  /\ shutdown_event ~> (rfidPc = "stopped" /\ alarmPc = "stopped" /\ watchdogPc = "stopped")
  /\ [][/\ shutdown_event => /\ rfid_queue' = rfid_queue \/ Len(rfid_queue') < Len(rfid_queue)
                             /\ ~(alarmPc = "read" /\ alarmPc' \in {"auth", "reset"})
        /\ rfidPc = "stopped" => rfidPc' = "stopped"
        /\ alarmPc = "stopped" => alarmPc' = "stopped"
        /\ watchdogPc = "stopped" => watchdogPc' = "stopped"]_vars

\* C18 witness: shutdown_event is set and the three pollers have stopped, the
\* reader thread with a card still at the reader.
C18_Witness ==
  /\ shutdown_event
  /\ card # "none"
  /\ rfidPc = "stopped"
  /\ alarmPc = "stopped"
  /\ watchdogPc = "stopped"

\* C19: check_face_recognition_result with no request pending does nothing: it
\* takes no result off face_result_queue, drops no future from
\* active_image_futures, commands and notifies nothing, and leaves
\* authorized_door_open, last_authorized_open_time and
\* last_face_recognition_success alone; a result leaves face_result_queue only
\* in a step taken with a request pending.
C19_IdlePollIsNoOp ==
  [][/\ (mainPc = "poll" /\ mainPc' # "poll" /\ ~face_recognition_pending)
          => /\ mainPc' = "gate"
             /\ UNCHANGED <<face_result_queue, active_image_futures, tasks, ev, consumed,
                            face_recognition_pending, face_recognition_start_time,
                            authorized_door_open, last_authorized_open_time,
                            last_face_recognition_success>>
     /\ (face_result_queue # <<>> /\ face_result_queue' = Tail(face_result_queue))
          => face_recognition_pending]_vars

\* C19 witness: the poll of this tick found nothing pending (the last request
\* was neither timed out nor answered in this tick), with a result waiting in
\* the queue and a finished future still in active_image_futures.
C19_Witness ==
  /\ mainPc = "gate"
  /\ ~face_recognition_pending
  /\ consumed = "none"
  /\ (now - face_recognition_start_time) <= 5
  /\ face_result_queue # <<>>
  /\ \E i \in active_image_futures : tasks[i] # "running"

\* C20: a pending request is resolved: face_recognition_pending, once true,
\* becomes false again, by a result or by the timeout, also when the capture
\* task fails or no result ever comes.  (Stated of the requests whose timeout
\* falls within the time the clock of the model runs.)
C20_PendingResolved ==
  (face_recognition_pending /\ face_recognition_start_time + 5 < Epoch + LiveHorizon)
    ~> ~face_recognition_pending

\* C20 witness: the only request made is still pending past its timeout, its
\* capture task has failed and no result has come.
C20_Witness ==
  /\ face_recognition_pending
  /\ (now - face_recognition_start_time) > 5
  /\ Len(tasks) = 1
  /\ tasks[1] = "done"
  /\ face_result_queue = <<>>

====
